---- MODULE Spec2Model ----
(***************************************************************************)
(* A model of the conversation-orchestration layer of kuantum-analizer.    *)
(*                                                                         *)
(* The repository holds two App components.  The assistant component       *)
(* (src/unnamed/part_000) owns the tool dispatcher handleSubmit, the       *)
(* conversation transcript and a one-shot voice input.  The studio         *)
(* component (src/App.tsx) owns the streamed chat handleSendMessage and    *)
(* the video generation handleGenerateVideo.  The variable panel says      *)
(* which of them a behaviour exercises; the panels share no state.  The    *)
(* features of the studio component (chat, speech input, video, social     *)
(* posts, file reading) are exercised one per behaviour.                   *)
(*                                                                         *)
(* Spec is the whole program.  SpecVideo is the video generation with room *)
(* for two invocations in flight.  SpecAssistant and SpecChat are the      *)
(* assistant and the chat under the assumption that every remote call      *)
(* eventually returns or throws.                                           *)
(*                                                                         *)
(* Texts are sequences of tokens: the token " " is white space, every      *)
(* other token is a word.  The fixed Turkish messages of the source are    *)
(* written in ASCII.  An optional field (text?: string, a nullable state)  *)
(* is a set: {} when absent, {v} when it holds v.                          *)
(***************************************************************************)
EXTENDS Integers, Sequences, FiniteSets, TLC

\* ------------------------------------------------------------------ bounds

\* The transcript length up to which a new prompt is accepted.
MaxTurns == 4
\* The largest number of polls a video job answers with done = false.
MaxPolls == 2
\* The number of handleGenerateVideo invocations of a behaviour.
MaxRuns == 1
\* The number of chat messages sent in a behaviour.
MaxSends == 2
\* The largest number of fragments of a streamed chat reply.
MaxChunks == 2
\* The largest number of results of a recognition session.
MaxResults == 2
\* The number of post generations of a behaviour.
MaxGenerations == 2
\* The activity log length up to which a post is scheduled.
MaxLog == 3

\* ---------------------------------------------------------------- optionals

None == {}

Some(v) == {v}

The(o) == CHOOSE v \in o : TRUE

\* -------------------------------------------------------------------- texts

IsSpace(c) == c = " "

RECURSIVE TrimStart(_)
TrimStart(s) ==
    IF s = << >> THEN << >>
    ELSE IF IsSpace(Head(s)) THEN TrimStart(Tail(s))
    ELSE s

RECURSIVE TrimEnd(_)
TrimEnd(s) ==
    IF s = << >> THEN << >>
    ELSE IF IsSpace(s[Len(s)]) THEN TrimEnd(SubSeq(s, 1, Len(s) - 1))
    ELSE s

\* String.prototype.trim
Trim(s) == TrimEnd(TrimStart(s))

\* !s.trim()
IsBlank(s) == Trim(s) = << >>

\* What the user can type into a prompt field.
PromptInputs == { << >>, <<" ">>, <<"merhaba">>, <<" ", "ciz">> }

\* What the speech recognizer can report as a transcript.
Transcripts == { <<"merhaba">> }

RemoveAt(s, i) == SubSeq(s, 1, i - 1) \o SubSeq(s, i + 1, Len(s))

\* ---------------------------------------------------------------- variables

VARIABLES
    panel,          \* which component the behaviour exercises
    lastOp,         \* history: the step taken last and the calls it issued
    \* assistant component (src/unnamed/part_000)
    prompt,         \* useState('')
    isProcessing,   \* useState(false)
    isListening,    \* useState(false)
    conversation,   \* useState<ConversationTurn[]>([greeting])
    hasRecognition, \* recognitionRef.current is not null
    recognizer,     \* the platform recognizer: its session and what it delivered
    dispatches,     \* the handleSubmit invocations suspended at an await
    accepted,       \* history: the prompts handleSubmit accepted, in order
    lastDispatch,   \* history: the dispatch that finished in the last step
    now,            \* Date.now(), in units in which every remote call lasts
    \* studio component (src/App.tsx): video generation
    aistudio,       \* window.aistudio is defined
    mounted,        \* the App component is mounted
    hasSelectedApiKey,      \* useState(false)
    isVideoLoading,         \* useState(false)
    videoLoadingMessage,    \* useState('')
    generatedVideoUrl,      \* useState<string | null>(null)
    videoError,             \* useState<string | null>(null)
    videosGeneratedCount,   \* useState(0)
    activityLog,            \* useState<ActivityLogItem[]>([]), newest first
    runs,           \* the handleGenerateVideo invocations suspended at an await
    videoRuns,      \* history: the invocations that passed the prompt check
    lastRun,        \* history: the invocation that returned in the last step
    \* studio component (src/App.tsx): streamed chat
    chat,           \* useState<Chat | null>(null): the session exists
    error,          \* useState<string | null>(null)
    userInput,      \* useState('')
    messages,       \* useState<ChatMessage[]>([])
    streamingResponse,  \* useState('')
    isChatLoading,  \* useState(false)
    isTtsEnabled,   \* useState(true)
    utterances,     \* window.speechSynthesis: utterances speaking or queued
    sends,          \* the handleSendMessage invocations suspended at an await
    chatSends,      \* history: the messages handleSendMessage accepted
    lastSend,       \* history: the send that returned in the last step
    \* studio component (src/App.tsx): speech input of the chat
    recognition,    \* recognitionRef.current and the platform session behind it
    isListeningChat,    \* useState(false): isListening of the studio component
    \* studio component (src/App.tsx): social media posts
    ai,             \* useState<GoogleGenAI | null>(null): the client exists
    socialPosts,    \* useState<Record<string, ScheduledPost> | null>(null)
    isGeneratingPosts,  \* useState(false)
    socialPostError,    \* useState<string | null>(null)
    isSchedulerOpen,    \* useState(false)
    schedulingPost, \* useState<string | null>(null)
    generations,    \* the generateSocialMediaPosts invocations at their await
    postRuns,       \* history: the generations started
    postFault,      \* history: handleSchedulePost threw
    \* fileToGenerativePart (src/App.tsx, src/unnamed/part_000)
    fileRead        \* a call: its FileReader and the promise it awaits

assistantVars ==
    << prompt, isProcessing, isListening, conversation, hasRecognition,
       recognizer, dispatches, accepted, lastDispatch, now >>

\* The state no continuation of handleGenerateVideo writes.
videoFixed == << aistudio, mounted, videoRuns >>

\* The state its continuations write, besides runs.
videoShared ==
    << hasSelectedApiKey, isVideoLoading, videoLoadingMessage,
       generatedVideoUrl, videoError, videosGeneratedCount, activityLog,
       lastRun >>

videoVars == << videoFixed, videoShared, runs >>

speechVars == << recognition, isListeningChat >>

chatVars ==
    << chat, error, userInput, messages, streamingResponse, isChatLoading,
       isTtsEnabled, utterances, sends, chatSends, lastSend, speechVars >>

postVars ==
    << ai, socialPosts, isGeneratingPosts, socialPostError, isSchedulerOpen,
       schedulingPost, generations, postRuns, postFault >>

\* What neither the assistant, nor the chat, nor the video writes.
otherVars == << postVars, fileRead >>

\* The video state that the posts do not write: all of it but activityLog.
videoButLog ==
    << videoFixed, runs, hasSelectedApiKey, isVideoLoading,
       videoLoadingMessage, generatedVideoUrl, videoError,
       videosGeneratedCount, lastRun >>

vars == << panel, lastOp, assistantVars, videoVars, chatVars, otherVars >>

\* A step: the handler, callback or continuation that ran, the remote or host
\* endpoints it called before it returned or suspended, and the prompt a
\* handler read.
Op(name, called, input) == [op |-> name, called |-> called, input |-> input]

\* ------------------------------------------------------ the data model

Turn(role, text, tool, report) ==
    [role |-> role, text |-> text, tool |-> tool, report |-> report]

Greeting ==
    Turn("model", Some(<<"Merhaba, ben sizin Gemini super asistaninizim.">>),
         None, None)

\* A user turn that holds the prompt trimmed; the code appends it raw.
UserTurnTrimmed(text) == Turn("user", Some(Trim(text)), None, None)

UserTurn(text) == Turn("user", Some(text), None, None)

TextTurn(text) == Turn("model", text, None, None)

ErrorText == <<"Bir hata olustu. Lutfen konsolu kontrol edin.">>

NoToolText == <<"Anladim ama bu gorevi yerine getirecek aracim yok.">>

ArchitectErrorText ==
    <<"Kod olusturma aracindan gelen yaniti islerken bir hata olustu.">>

ImageErrorText == <<"Gorsel olusturulamadi.">>

AutopilotErrorText == <<"Otopilot plani olusturulurken bir hata olustu.">>

\* The eight declared tools.
ToolNames ==
    { "generateGrowthPlan", "performWebSearch", "generateComplexReasoning",
      "createOutreachPlan", "architectCodeAndSystem",
      "generateImageWithCanvas", "createAutopilotPlan",
      "executeDesktopCommand" }

\* The tools whose case awaits a second generateContent call.
RemoteTools ==
    { "performWebSearch", "generateComplexReasoning",
      "architectCodeAndSystem", "generateImageWithCanvas",
      "createAutopilotPlan" }

\* The tools whose case reads call.args.
ArgTools == RemoteTools \cup { "executeDesktopCommand" }

ResultName(name) ==
    CASE name = "generateGrowthPlan" -> "AIGrowthEngineResult"
      [] name = "performWebSearch" -> "WebSearchResult"
      [] name = "generateComplexReasoning" -> "ComplexReasoningResult"
      [] name = "createOutreachPlan" -> "OutreachAndVideoSuiteResult"
      [] name = "architectCodeAndSystem" -> "CodeArchitectResult"
      [] name = "generateImageWithCanvas" -> "CreativeCanvasResult"
      [] name = "createAutopilotPlan" -> "AutopilotPlanResult"
      [] name = "executeDesktopCommand" -> "DesktopCommandResult"
      [] OTHER -> "none"

ReportSummary(name) ==
    CASE name = "generateGrowthPlan" -> <<"Buyume plani olusturuldu.">>
      [] name = "performWebSearch" -> <<"Web aramasi tamamlandi.">>
      [] name = "generateComplexReasoning" ->
            <<"Karmasik gorev analizi tamamlandi.">>
      [] name = "createOutreachPlan" ->
            <<"Iletisim ve pazar plani olusturuldu.">>
      [] name = "architectCodeAndSystem" ->
            <<"Yazilim mimarisi ve kod basariyla olusturuldu.">>
      [] name = "generateImageWithCanvas" ->
            <<"Gorsel basariyla olusturuldu.">>
      [] name = "createAutopilotPlan" ->
            <<"Otopilot strateji plani olusturuldu.">>
      [] name = "executeDesktopCommand" ->
            <<"Masaustu komutu basariyla simule edildi.">>
      [] OTHER -> << >>

\* tool.data: whether it is the literal of the source, and what it takes from
\* the call's arguments and from the second response.
ToolData(literal, args, result, sources) ==
    [literal |-> literal, args |-> args, result |-> result,
     sources |-> sources]

ToolResult(name, data) == [name |-> ResultName(name), data |-> data]

\* JSON.parse: a text is well-formed when it is bracketed by "{" and "}";
\* its value is what the brackets hold.  JSON.parse(undefined) throws.
JsonOk(text) ==
    /\ text # None
    /\ Len(The(text)) >= 2
    /\ Head(The(text)) = "{"
    /\ The(text)[Len(The(text))] = "}"

JsonParse(text) == SubSeq(The(text), 2, Len(The(text)) - 1)

\* --------------------------------------------- the remote model's answers

FunctionCall(name, args) == [name |-> name, args |-> args]

\* What a function call's argument can hold; call.args itself is optional.
ArgValues == { <<"kedi">>, <<"rapor">> }

\* The names the decision call can return: the declared ones and one more.
CallNames == ToolNames \cup { "translateText" }

FirstCalls ==
    { FunctionCall(n, Some(a)) : n \in CallNames, a \in ArgValues }
        \cup { FunctionCall(n, None) :
                 n \in { "performWebSearch", "createOutreachPlan" } }

\* A second function call of the same response.
SecondCalls == { FunctionCall("executeDesktopCommand", Some(<<"kedi">>)) }

Response(functionCalls, text) ==
    [functionCalls |-> functionCalls, text |-> text]

\* The responses of the decision call (generateContent with the tools).
DecisionResponses ==
    { Response(None, t) : t \in { None, Some(<<"selam">>) } }
        \cup { Response(Some(<< >>), Some(<<"selam">>)) }
        \cup { Response(Some(<<c>>), None) : c \in FirstCalls }
        \cup { Response(Some(<<c, d>>), None) :
                 c \in { FunctionCall("generateImageWithCanvas",
                                      Some(<<"kedi">>)),
                         FunctionCall("translateText", Some(<<"kedi">>)) },
                 d \in SecondCalls }

ToolResponse(text, inlineData, chunks) ==
    [text |-> text, inlineData |-> inlineData, chunks |-> chunks]

NoResponse == ToolResponse(None, None, None)

\* The responses of a tool's own generateContent call.
ToolResponses(name) ==
    CASE name = "performWebSearch" ->
            { ToolResponse(Some(<<"sonuc">>), None, Some(<<"kaynak">>)),
              NoResponse }
      [] name = "generateComplexReasoning" ->
            { ToolResponse(Some(<<"sonuc">>), None, None), NoResponse }
      [] name \in { "architectCodeAndSystem", "createAutopilotPlan" } ->
            { ToolResponse(Some(<<"{", "plan", "}">>), None, None),
              ToolResponse(Some(<<"plan", "}">>), None, None),
              NoResponse }
      [] name = "generateImageWithCanvas" ->
            { ToolResponse(None, Some(<<"png">>), None),
              ToolResponse(Some(<<"sonuc">>), None, None),
              NoResponse }
      [] OTHER -> { }

\* ------------------------------------------------------- the dispatcher

\* A switch without a default branch: an undeclared name is run like the
\* desktop command.  The code's default branch sets the fixed text.
SwitchTurnNoDefault(call, r) ==
    Turn("model", None,
         Some(ToolResult(call.name, ToolData(FALSE, call.args, None, << >>))),
         None)

\* newTurn after the switch on call.name, given the tool's own response.
SwitchTurn(call, r) ==
    LET tool(data) == Turn("model", None, Some(ToolResult(call.name, data)), None)
    IN  CASE call.name \in { "generateGrowthPlan", "createOutreachPlan" } ->
                tool(ToolData(TRUE, None, None, << >>))
          [] call.name = "performWebSearch" ->
                tool(ToolData(FALSE, None, r.text,
                              IF r.chunks = None THEN << >> ELSE The(r.chunks)))
          [] call.name = "generateComplexReasoning" ->
                tool(ToolData(FALSE, None, r.text, << >>))
          [] call.name = "architectCodeAndSystem" ->
                IF JsonOk(r.text)
                THEN tool(ToolData(FALSE, None, Some(JsonParse(r.text)), << >>))
                ELSE TextTurn(Some(ArchitectErrorText))
          [] call.name = "generateImageWithCanvas" ->
                IF r.inlineData # None
                THEN tool(ToolData(FALSE, call.args, r.inlineData, << >>))
                ELSE TextTurn(Some(ImageErrorText))
          [] call.name = "createAutopilotPlan" ->
                IF JsonOk(r.text)
                THEN tool(ToolData(FALSE, None, Some(JsonParse(r.text)), << >>))
                ELSE TextTurn(Some(AutopilotErrorText))
          [] call.name = "executeDesktopCommand" ->
                tool(ToolData(FALSE, call.args, None, << >>))
          [] OTHER -> TextTurn(Some(NoToolText))

\* A report whose toolUsed is the result's display name; the code writes
\* call.name.
ActionResultDisplayName(currentPrompt, call, clock) ==
    [operationId |-> clock, timestamp |-> clock, prompt |-> currentPrompt,
     toolUsed |-> ResultName(call.name), status |-> "Success",
     summary |-> ReportSummary(call.name)]

\* The report, built when the clock shows clock: operationId is
\* `OP-${Date.now()}` and timestamp is new Date().
ActionResult(currentPrompt, call, clock) ==
    [operationId |-> clock, timestamp |-> clock, prompt |-> currentPrompt,
     toolUsed |-> call.name, status |-> "Success",
     summary |-> ReportSummary(call.name)]

\* if (newTurn.tool) newTurn.report = {...}
AttachReport(turn, currentPrompt, call, clock) ==
    IF turn.tool # None
    THEN [turn EXCEPT
             !.report = Some(ActionResult(currentPrompt, call, clock))]
    ELSE turn

\* A catch block that appends a turn without text; the code's has ErrorText.
CatchTurnSilent == Turn("model", None, None, None)

\* The turn of the catch block.
CatchTurn == TextTurn(Some(ErrorText))

\* An else branch that falls back to a fixed text when the response has none;
\* the code appends response.text as it is.
DirectTurnDefault(response) ==
    Turn("model",
         IF response.text = None THEN Some(NoToolText) ELSE response.text,
         None, None)

\* The turn of the else branch: the model's own text.
DirectTurn(response) == TextTurn(response.text)

HasCall(response) ==
    response.functionCalls # None /\ Len(The(response.functionCalls)) > 0

\* A tie-break that honours the last function call; the code takes
\* functionCalls[0].
LastCall(response) ==
    The(response.functionCalls)[Len(The(response.functionCalls))]

FirstCall(response) == The(response.functionCalls)[1]

\* One handleSubmit invocation suspended at an await: its currentPrompt, where
\* it is, the decision response it holds, and what the clock showed when it
\* started.
Dispatch(currentPrompt, pc, response, startedAt) ==
    [currentPrompt |-> currentPrompt, pc |-> pc, response |-> response,
     startedAt |-> startedAt]

Outcome(p, response, toolResponse, threw, startedAt) ==
    [prompt |-> p, response |-> response, toolResponse |-> toolResponse,
     threw |-> threw, startedAt |-> startedAt]

NoOutcome == Outcome(<< >>, None, None, "none", 0)

\* ---------------------------------------------- assistant: handleSubmit

\* disabled={isProcessing || isListening} on the textarea
TextareaEnabled == ~(isProcessing \/ isListening)

\* A submit button that does not look at isProcessing.
SubmitButtonIgnoresProcessing == ~(IsBlank(prompt) \/ isListening)

\* disabled={isProcessing || !prompt.trim() || isListening} on the button
SubmitButtonEnabled == ~(isProcessing \/ IsBlank(prompt) \/ isListening)

\* A check that rejects only the empty prompt; the code trims first.
RejectsEmptyOnly(p) == p = << >>

\* if (!prompt.trim()) return;
RejectsPrompt(p) == IsBlank(p)

\* A dispatch without the finally block: isProcessing stays as it is.
FinishWithoutFinally(i, turn, outcome) ==
    /\ conversation' = Append(conversation, turn)
    /\ isProcessing' = isProcessing
    /\ dispatches' = RemoveAt(dispatches, i)
    /\ lastDispatch' = outcome

\* A dispatch that writes its turn over the last one; the code appends.
FinishInPlace(i, turn, outcome) ==
    /\ conversation' = [conversation EXCEPT ![Len(conversation)] = turn]
    /\ isProcessing' = FALSE
    /\ dispatches' = RemoveAt(dispatches, i)
    /\ lastDispatch' = outcome

\* The dispatch at position i leaves its try block with this turn: the turn is
\* appended and the finally block clears isProcessing.
Finish(i, turn, outcome) ==
    /\ conversation' = Append(conversation, turn)
    /\ isProcessing' = FALSE
    /\ dispatches' = RemoveAt(dispatches, i)
    /\ lastDispatch' = outcome

\* handleSubmit up to its first await.  new GoogleGenAI may throw at once.
HandleSubmit ==
    IF RejectsPrompt(prompt)
    THEN /\ lastOp' = Op("handleSubmit", { }, prompt)
         /\ lastDispatch' = NoOutcome
         /\ UNCHANGED << prompt, isProcessing, isListening, conversation,
                         hasRecognition, recognizer, dispatches, accepted,
                         now >>
    ELSE /\ Len(conversation) < MaxTurns
         /\ accepted' = Append(accepted, prompt)
         /\ prompt' = << >>
         /\ UNCHANGED << isListening, hasRecognition, recognizer, now >>
         /\ \/ /\ isProcessing' = TRUE
               /\ conversation' = Append(conversation, UserTurn(prompt))
               /\ dispatches' =
                      Append(dispatches,
                             Dispatch(prompt, "decide", None, now))
               /\ lastDispatch' = NoOutcome
               /\ lastOp' = Op("handleSubmit", { "generateContent" }, prompt)
            \/ /\ isProcessing' = FALSE
               /\ conversation' =
                      conversation \o << UserTurn(prompt), CatchTurn >>
               /\ lastDispatch' = Outcome(prompt, None, None, "client", now)
               /\ lastOp' = Op("handleSubmit", { }, prompt)
               /\ UNCHANGED dispatches

\* The form's submit button.
ClickSubmit ==
    /\ panel = "assistant"
    /\ SubmitButtonEnabled
    /\ HandleSubmit
    /\ UNCHANGED << panel, otherVars, chatVars, videoVars >>

\* Enter without Shift in the textarea.
PressEnter ==
    /\ panel = "assistant"
    /\ TextareaEnabled
    /\ HandleSubmit
    /\ UNCHANGED << panel, otherVars, chatVars, videoVars >>

\* onChange of the textarea.
TypePrompt ==
    /\ panel = "assistant"
    /\ TextareaEnabled
    /\ \E p \in PromptInputs : prompt' = p
    /\ lastOp' = Op("setPrompt", { }, << >>)
    /\ lastDispatch' = NoOutcome
    /\ UNCHANGED << panel, otherVars, chatVars, videoVars, isProcessing, isListening, conversation,
                    hasRecognition, recognizer, dispatches, accepted, now >>

\* The decision call of dispatch i returns.  A remote call lasts: the clock
\* shows more when it returns than when it was issued.
DecisionReturns ==
    /\ panel = "assistant"
    /\ now' = now + 1
    /\ \E i \in 1..Len(dispatches), response \in DecisionResponses :
         LET d == dispatches[i]
             call == FirstCall(response)
             out(threw) ==
                 Outcome(d.currentPrompt, Some(response), None, threw,
                         d.startedAt)
         IN  /\ d.pc = "decide"
             /\ IF ~HasCall(response)
                THEN /\ Finish(i, DirectTurn(response), out("none"))
                     /\ lastOp' = Op("decisionReturns", { }, << >>)
                ELSE IF call.name \in ArgTools /\ call.args = None
                THEN /\ Finish(i, CatchTurn, out("args"))
                     /\ lastOp' = Op("decisionReturns", { }, << >>)
                ELSE IF call.name \in RemoteTools
                THEN /\ dispatches' =
                            [dispatches EXCEPT
                                ![i] = Dispatch(d.currentPrompt, "tool",
                                                Some(response),
                                                d.startedAt)]
                     /\ lastOp' = Op("decisionReturns", { "generateContent" }, << >>)
                     /\ lastDispatch' = NoOutcome
                     /\ UNCHANGED << conversation, isProcessing >>
                ELSE /\ Finish(i, AttachReport(SwitchTurn(call, NoResponse),
                                               d.currentPrompt, call, now'),
                               out("none"))
                     /\ lastOp' = Op("decisionReturns", { }, << >>)
    /\ UNCHANGED << panel, otherVars, chatVars, videoVars, prompt, isListening, hasRecognition, recognizer,
                    accepted >>

\* The decision call of dispatch i throws.
DecisionThrows ==
    /\ panel = "assistant"
    /\ now' = now + 1
    /\ \E i \in 1..Len(dispatches) :
         /\ dispatches[i].pc = "decide"
         /\ Finish(i, CatchTurn,
                   Outcome(dispatches[i].currentPrompt, None, None,
                           "decision", dispatches[i].startedAt))
    /\ lastOp' = Op("decisionThrows", { }, << >>)
    /\ UNCHANGED << panel, otherVars, chatVars, videoVars, prompt, isListening, hasRecognition,
                    recognizer, accepted >>

\* The tool's own call of dispatch i returns.
ToolReturns ==
    /\ panel = "assistant"
    /\ now' = now + 1
    /\ \E i \in 1..Len(dispatches) :
         LET d == dispatches[i]
             call == FirstCall(The(d.response))
         IN  /\ d.pc = "tool"
             /\ \E r \in ToolResponses(call.name) :
                  Finish(i, AttachReport(SwitchTurn(call, r),
                                         d.currentPrompt, call, now'),
                         Outcome(d.currentPrompt, d.response, Some(r), "none",
                                 d.startedAt))
    /\ lastOp' = Op("toolReturns", { }, << >>)
    /\ UNCHANGED << panel, otherVars, chatVars, videoVars, prompt, isListening, hasRecognition,
                    recognizer, accepted >>

\* The tool's own call of dispatch i throws.
ToolThrows ==
    /\ panel = "assistant"
    /\ now' = now + 1
    /\ \E i \in 1..Len(dispatches) :
         /\ dispatches[i].pc = "tool"
         /\ Finish(i, CatchTurn,
                   Outcome(dispatches[i].currentPrompt, dispatches[i].response,
                           None, "tool", dispatches[i].startedAt))
    /\ lastOp' = Op("toolThrows", { }, << >>)
    /\ UNCHANGED << panel, otherVars, chatVars, videoVars, prompt, isListening, hasRecognition,
                    recognizer, accepted >>

\* ------------------------------------------------ assistant: voice input

Recognizer(active, closing, faulted) ==
    [active |-> active, closing |-> closing, faulted |-> faulted]

\* The microphone button.  start() on a recognizer whose session is still
\* active throws InvalidStateError; stop() lets the session run to its end.
HandleVoiceInput ==
    /\ panel = "assistant"
    /\ IF ~hasRecognition
       THEN UNCHANGED << isListening, prompt, recognizer >>
       ELSE IF isListening
       THEN UNCHANGED << isListening, prompt, recognizer >>
       ELSE /\ isListening' = TRUE
            /\ prompt' = << >>
            /\ recognizer' =
                   IF recognizer.active
                   THEN [recognizer EXCEPT !.faulted = TRUE]
                   ELSE Recognizer(TRUE, FALSE, recognizer.faulted)
    /\ lastOp' = Op("handleVoiceInput", { }, << >>)
    /\ UNCHANGED << panel, otherVars, chatVars, videoVars, isProcessing, conversation, hasRecognition,
                    dispatches, accepted, now >>
    /\ lastDispatch' = NoOutcome

\* recognition.onresult (continuous = false: one result for a session)
RecognitionResult ==
    /\ panel = "assistant"
    /\ recognizer.active /\ ~recognizer.closing
    /\ \E t \in Transcripts : prompt' = t
    /\ isListening' = FALSE
    /\ recognizer' = [recognizer EXCEPT !.closing = TRUE]
    /\ lastOp' = Op("onresult", { }, << >>)
    /\ UNCHANGED << panel, otherVars, chatVars, videoVars, isProcessing, conversation, hasRecognition,
                    dispatches, accepted, now >>
    /\ lastDispatch' = NoOutcome

\* recognition.onerror
RecognitionError ==
    /\ panel = "assistant"
    /\ recognizer.active /\ ~recognizer.closing
    /\ isListening' = FALSE
    /\ recognizer' = [recognizer EXCEPT !.closing = TRUE]
    /\ lastOp' = Op("onerror", { }, << >>)
    /\ UNCHANGED << panel, otherVars, chatVars, videoVars, prompt, isProcessing, conversation,
                    hasRecognition, dispatches, accepted, now >>
    /\ lastDispatch' = NoOutcome

\* recognition.onend
RecognitionEnd ==
    /\ panel = "assistant"
    /\ recognizer.active
    /\ isListening' = FALSE
    /\ recognizer' = Recognizer(FALSE, FALSE, recognizer.faulted)
    /\ lastOp' = Op("onend", { }, << >>)
    /\ UNCHANGED << panel, otherVars, chatVars, videoVars, prompt, isProcessing, conversation,
                    hasRecognition, dispatches, accepted, now >>
    /\ lastDispatch' = NoOutcome

\* ------------------------------------------- studio: video generation
\* videoPrompt and startImage are read only by handleGenerateVideo, when the
\* button is clicked: they are inputs of that step.

\* What a rejected promise carries: an Error with a message, or another value
\* (fileToBase64 rejects with the reader's event).
Thrown(isError, message) == [isError |-> isError, message |-> message]

NotFoundThrown ==
    Thrown(TRUE, <<"404", "Requested entity was not found.">>)

NetworkThrown == Thrown(TRUE, <<"Failed to fetch">>)

EventThrown == Thrown(FALSE, << >>)

RemoteThrown == { NotFoundThrown, NetworkThrown }

\* String.prototype.includes, on tokens
Includes(text, token) == \E k \in 1..Len(text) : text[k] = token

EnterPromptError == <<"Lutfen bir video istemi girin.">>

SelectKeyError == <<"Video olusturmak icin lutfen bir API anahtari secin.">>

InvalidKeyError ==
    <<"API anahtari gecersiz veya bulunamadi. Lutfen yeni bir anahtar secin.">>

UnknownVideoError == <<"Video olusturulurken bilinmeyen bir hata olustu.">>

NoUriThrown == Thrown(TRUE, <<"Video URI'si olusturulamadi.">>)

LoadingMessages ==
    << <<"Video sihirbazlarimiz is basinda...">>,
       <<"Yaratici pikseller bir araya getiriliyor...">>,
       <<"Neredeyse bitti, son dokunuslar yapiliyor...">>,
       <<"Harika bir sey geliyor...">> >>

VideoPrompts == { <<" ">>, <<"kedi">> }

\* An operation handle as the remote reports it: its done flag and, once
\* done, whether its response carries a video uri.
Operation(done, hasUri) == [done |-> done, hasUri |-> hasUri]

Operations ==
    { Operation(FALSE, FALSE) } \cup { Operation(TRUE, u) : u \in BOOLEAN }

\* One handleGenerateVideo invocation suspended at an await: where, the
\* start image of its closure, its operation, the handle's history (the
\* polls it answered with done = false, and where it reported done), the
\* calls the run has made and its interval (intervalId, messageIndex).
Run(pc, image, operation, falsePolls, sawDone, polls, fetches, ticking, messageIndex) ==
    [pc |-> pc, image |-> image, operation |-> operation,
     falsePolls |-> falsePolls, sawDone |-> sawDone, polls |-> polls,
     fetches |-> fetches, ticking |-> ticking, messageIndex |-> messageIndex]

NewRun(image) ==
    Run("checkKey", image, Operation(FALSE, FALSE), 0, "never", 0, 0, FALSE, 0)

\* What a run that has just returned did: how it left (returned, caught an
\* error, or rejected uncaught) and at which await, with its record and the
\* value its catch block received.
Ended(how, at, run, err) ==
    [how |-> how, at |-> at, run |-> run, err |-> err]

NoRun == Ended("none", "none", NewRun(FALSE), None)

\* disabled={isVideoLoading}, in the form shown when hasSelectedApiKey
GenerateButtonEnabled == hasSelectedApiKey /\ ~isVideoLoading

\* if (!videoPrompt.trim())
RejectsVideoPrompt(p) == IsBlank(p)

\* A key check that never finds the key missing.
KeyMissingNever(keySelected) == FALSE

\* if (!keySelected)
KeyMissing(keySelected) == ~keySelected

\* A catch block that does not look for the not-found message.
IsCredentialErrorNever(err) == FALSE

\* err instanceof Error ? err.message : '...bilinmeyen...'
ErrorMessage(err) == IF err.isError THEN err.message ELSE UnknownVideoError

IsCredentialError(err) ==
    Includes(ErrorMessage(err), "Requested entity was not found.")

\* The finally block of run i: the loading state is cleared and the run's
\* interval is cleared with it.
Finally(i) ==
    /\ isVideoLoading' = FALSE
    /\ videoLoadingMessage' = << >>
    /\ runs' = RemoveAt(runs, i)

\* The catch block of run i, then its finally block.
Catch(i, run, err, at) ==
    /\ videoError' =
           Some(IF IsCredentialError(err) THEN InvalidKeyError
                ELSE ErrorMessage(err))
    /\ hasSelectedApiKey' =
           IF IsCredentialError(err) THEN FALSE ELSE hasSelectedApiKey
    /\ Finally(i)
    /\ lastRun' = Ended("caught", at, run, Some(err))
    /\ UNCHANGED << generatedVideoUrl, videosGeneratedCount, activityLog >>

\* A loop that gives up at once; the code's loop has no other exit than done.
KeepsPollingNever(operation) == FALSE

\* while (!operation.done)
KeepsPolling(operation) == ~operation.done

\* Run i holds a handle: sleep and poll while it is not done; then fetch the
\* uri of its response, or throw when it has none.
Loop(i, run, name) ==
    IF KeepsPolling(run.operation)
    THEN /\ runs' = [runs EXCEPT ![i] = [run EXCEPT !.pc = "sleep"]]
         /\ lastOp' = Op(name, { }, << >>)
         /\ UNCHANGED videoShared
    ELSE IF run.operation.hasUri
    THEN /\ runs' = [runs EXCEPT
                        ![i] = [run EXCEPT !.pc = "fetch", !.fetches = @ + 1]]
         /\ lastOp' = Op(name, { "fetch" }, << >>)
         /\ UNCHANGED videoShared
    ELSE /\ Catch(i, run, NoUriThrown, "noUri")
         /\ lastOp' = Op(name, { }, << >>)

\* The generate button: handleGenerateVideo up to its first await, while
\* fewer than limit invocations have passed the prompt check.
GenerateVideo(limit) ==
    /\ panel = "video"
    /\ mounted
    /\ GenerateButtonEnabled
    /\ \E videoPrompt \in VideoPrompts, startImage \in BOOLEAN :
         IF RejectsVideoPrompt(videoPrompt)
         THEN /\ videoError' = Some(EnterPromptError)
              /\ lastOp' = Op("handleGenerateVideo", { }, videoPrompt)
              /\ lastRun' = NoRun
              /\ UNCHANGED << runs, videoRuns >>
         ELSE /\ videoRuns < limit
              /\ videoRuns' = videoRuns + 1
              /\ IF aistudio
                 THEN /\ runs' = Append(runs, NewRun(startImage))
                      /\ lastOp' = Op("handleGenerateVideo",
                                      { "hasSelectedApiKey" }, videoPrompt)
                      /\ lastRun' = NoRun
                      /\ UNCHANGED videoError
                 ELSE /\ videoError' = Some(SelectKeyError)
                      /\ lastOp' = Op("handleGenerateVideo", { }, videoPrompt)
                      /\ lastRun' =
                             Ended("returned", "checkKey", NewRun(startImage),
                                   None)
                      /\ UNCHANGED runs
    /\ UNCHANGED << panel, otherVars, chatVars, assistantVars, aistudio,
                    mounted, hasSelectedApiKey, isVideoLoading,
                    videoLoadingMessage, generatedVideoUrl,
                    videosGeneratedCount, activityLog >>

HandleGenerateVideo == GenerateVideo(MaxRuns)

\* hasSelectedApiKey() of run i resolves: checkApiKey stores and returns it.
\* With a key the run sets the loading state, starts its interval and goes on
\* to its first call.
KeyCheckReturns ==
    /\ panel = "video"
    /\ \E i \in 1..Len(runs), keySelected \in BOOLEAN :
         /\ runs[i].pc = "checkKey"
         /\ hasSelectedApiKey' = keySelected
         /\ IF KeyMissing(keySelected)
            THEN /\ videoError' = Some(SelectKeyError)
                 /\ runs' = RemoveAt(runs, i)
                 /\ lastRun' = Ended("returned", "checkKey", runs[i], None)
                 /\ lastOp' = Op("keyCheckReturns", { }, << >>)
                 /\ UNCHANGED << isVideoLoading, videoLoadingMessage,
                                 generatedVideoUrl >>
            ELSE /\ isVideoLoading' = TRUE
                 /\ videoError' = None
                 /\ generatedVideoUrl' = None
                 /\ videoLoadingMessage' = LoadingMessages[1]
                 /\ runs' = [runs EXCEPT
                        ![i] = [@ EXCEPT
                                  !.pc = IF runs[i].image THEN "readImage"
                                         ELSE "generateVideos",
                                  !.ticking = TRUE,
                                  !.messageIndex = 0]]
                 /\ lastOp' = Op("keyCheckReturns",
                                 IF runs[i].image THEN { }
                                 ELSE { "generateVideos" }, << >>)
                 /\ lastRun' = NoRun
    /\ UNCHANGED << panel, otherVars, chatVars, assistantVars, videoFixed, videosGeneratedCount,
                    activityLog >>

\* hasSelectedApiKey() of run i rejects: nothing catches it.
KeyCheckThrows ==
    /\ panel = "video"
    /\ \E i \in 1..Len(runs) :
         /\ runs[i].pc = "checkKey"
         /\ runs' = RemoveAt(runs, i)
         /\ lastRun' = Ended("rejected", "checkKey", runs[i], None)
    /\ lastOp' = Op("keyCheckThrows", { }, << >>)
    /\ UNCHANGED << panel, otherVars, chatVars, assistantVars, videoFixed, hasSelectedApiKey,
                    isVideoLoading, videoLoadingMessage, generatedVideoUrl,
                    videoError, videosGeneratedCount, activityLog >>

\* The interval callback of run i, every 3 seconds.
RotateMessage ==
    /\ panel = "video"
    /\ \E i \in 1..Len(runs) :
         LET next == (runs[i].messageIndex + 1) % Len(LoadingMessages)
         IN  /\ runs[i].ticking
             /\ runs' = [runs EXCEPT ![i] = [@ EXCEPT !.messageIndex = next]]
             /\ videoLoadingMessage' = LoadingMessages[next + 1]
    /\ lastOp' = Op("interval", { }, << >>)
    /\ lastRun' = NoRun
    /\ UNCHANGED << panel, otherVars, chatVars, assistantVars, videoFixed, hasSelectedApiKey,
                    isVideoLoading, generatedVideoUrl, videoError,
                    videosGeneratedCount, activityLog >>

\* fileToBase64(startImage) of run i resolves.
ReadImageReturns ==
    /\ panel = "video"
    /\ \E i \in 1..Len(runs) :
         /\ runs[i].pc = "readImage"
         /\ runs' = [runs EXCEPT ![i] = [@ EXCEPT !.pc = "generateVideos"]]
    /\ lastOp' = Op("readImageReturns", { "generateVideos" }, << >>)
    /\ lastRun' = NoRun
    /\ UNCHANGED << panel, otherVars, chatVars, assistantVars, videoFixed, hasSelectedApiKey,
                    isVideoLoading, videoLoadingMessage, generatedVideoUrl,
                    videoError, videosGeneratedCount, activityLog >>

\* fileToBase64(startImage) of run i rejects with the reader's event.
ReadImageThrows ==
    /\ panel = "video"
    /\ \E i \in 1..Len(runs) :
         /\ runs[i].pc = "readImage"
         /\ Catch(i, runs[i], EventThrown, "readImage")
    /\ lastOp' = Op("readImageThrows", { }, << >>)
    /\ UNCHANGED << panel, otherVars, chatVars, assistantVars, videoFixed >>

\* generateVideos of run i returns an operation handle.
GenerateVideosReturns ==
    /\ panel = "video"
    /\ \E i \in 1..Len(runs), operation \in Operations :
         /\ runs[i].pc = "generateVideos"
         /\ Loop(i, [runs[i] EXCEPT
                        !.operation = operation,
                        !.sawDone = IF operation.done THEN "submit" ELSE @],
                 "generateVideosReturns")
    /\ UNCHANGED << panel, otherVars, chatVars, assistantVars, videoFixed >>

\* The 10 second timeout of run i elapses: the run polls.
SleepElapses ==
    /\ panel = "video"
    /\ \E i \in 1..Len(runs) :
         /\ runs[i].pc = "sleep"
         /\ runs' = [runs EXCEPT
                        ![i] = [@ EXCEPT !.pc = "poll", !.polls = @ + 1]]
    /\ lastOp' = Op("sleepElapses", { "getVideosOperation" }, << >>)
    /\ lastRun' = NoRun
    /\ UNCHANGED << panel, otherVars, chatVars, assistantVars, videoFixed, hasSelectedApiKey,
                    isVideoLoading, videoLoadingMessage, generatedVideoUrl,
                    videoError, videosGeneratedCount, activityLog >>

\* getVideosOperation of run i returns the updated handle.  A handle answers
\* at most MaxPolls polls with done = false.
PollReturns ==
    /\ panel = "video"
    /\ \E i \in 1..Len(runs), operation \in Operations :
         /\ runs[i].pc = "poll"
         /\ operation.done \/ runs[i].falsePolls < MaxPolls
         /\ Loop(i, [runs[i] EXCEPT
                        !.operation = operation,
                        !.falsePolls = IF operation.done THEN @ ELSE @ + 1,
                        !.sawDone = IF operation.done THEN "poll" ELSE @],
                 "pollReturns")
    /\ UNCHANGED << panel, otherVars, chatVars, assistantVars, videoFixed >>

\* generateVideos, getVideosOperation, fetch or blob() of run i throws.
RemoteThrows ==
    /\ panel = "video"
    /\ \E i \in 1..Len(runs), err \in RemoteThrown :
         /\ runs[i].pc \in { "generateVideos", "poll", "fetch", "blob" }
         /\ Catch(i, runs[i], err, runs[i].pc)
    /\ lastOp' = Op("remoteThrows", { }, << >>)
    /\ UNCHANGED << panel, otherVars, chatVars, assistantVars, videoFixed >>

\* fetch of run i resolves: the run reads the body.
FetchReturns ==
    /\ panel = "video"
    /\ \E i \in 1..Len(runs) :
         /\ runs[i].pc = "fetch"
         /\ runs' = [runs EXCEPT ![i] = [@ EXCEPT !.pc = "blob"]]
    /\ lastOp' = Op("fetchReturns", { }, << >>)
    /\ lastRun' = NoRun
    /\ UNCHANGED << panel, otherVars, chatVars, assistantVars, videoFixed, hasSelectedApiKey,
                    isVideoLoading, videoLoadingMessage, generatedVideoUrl,
                    videoError, videosGeneratedCount, activityLog >>

\* blob() of run i resolves: the video is shown and counted.
BlobReturns ==
    /\ panel = "video"
    /\ \E i \in 1..Len(runs) :
         /\ runs[i].pc = "blob"
         /\ generatedVideoUrl' = Some(<<"blob:video">>)
         /\ videosGeneratedCount' = videosGeneratedCount + 1
         /\ activityLog' = << "video" >> \o activityLog
         /\ Finally(i)
         /\ lastRun' = Ended("returned", "end", runs[i], None)
    /\ lastOp' = Op("blobReturns", { }, << >>)
    /\ UNCHANGED << panel, otherVars, chatVars, assistantVars, videoFixed, hasSelectedApiKey,
                    videoError >>

\* The select-key button, shown while hasSelectedApiKey is false:
\* openSelectKey(), then the key is taken as selected.
HandleSelectKey ==
    /\ panel = "video"
    /\ mounted
    /\ ~hasSelectedApiKey
    /\ hasSelectedApiKey' = aistudio
    /\ lastOp' = Op("handleSelectKey",
                    IF aistudio THEN { "openSelectKey" } ELSE { }, << >>)
    /\ lastRun' = NoRun
    /\ UNCHANGED << panel, otherVars, chatVars, assistantVars, videoFixed, isVideoLoading,
                    videoLoadingMessage, generatedVideoUrl, videoError,
                    videosGeneratedCount, activityLog, runs >>

\* The effect on entering the video mode: checkApiKey().
CheckApiKeyEffect ==
    /\ panel = "video"
    /\ mounted
    /\ aistudio
    /\ \E keySelected \in BOOLEAN : hasSelectedApiKey' = keySelected
    /\ lastOp' = Op("checkApiKey", { "hasSelectedApiKey" }, << >>)
    /\ lastRun' = NoRun
    /\ UNCHANGED << panel, otherVars, chatVars, assistantVars, videoFixed, isVideoLoading,
                    videoLoadingMessage, generatedVideoUrl, videoError,
                    videosGeneratedCount, activityLog, runs >>

\* The host tears the App component down.  No effect of the component returns
\* a cleanup for the runs of handleGenerateVideo: their continuations, timers
\* and intervals stay as they are; only the handlers of the page are gone.
Unmount ==
    /\ panel = "video"
    /\ mounted
    /\ mounted' = FALSE
    /\ lastOp' = Op("unmount", { }, << >>)
    /\ lastRun' = NoRun
    /\ UNCHANGED << panel, otherVars, chatVars, assistantVars, aistudio,
                    videoRuns, hasSelectedApiKey, isVideoLoading,
                    videoLoadingMessage, generatedVideoUrl, videoError,
                    videosGeneratedCount, activityLog, runs >>

\* ------------------------------------------------- studio: streamed chat

ChatInputs == { << >>, <<" ">>, <<"merhaba">> }

\* useState<File[]>([]): only the finally block of handleSendMessage sets it,
\* to [].
imageFiles == << >>

Message(role, text) == [role |-> role, text |-> text]

MissingKeyError ==
    <<"API anahtari bulunamadi. Lutfen ortam degiskenlerini kontrol edin.">>

SendError == <<"Mesaj gonderilirken bir hata olustu.">>

SpeechError == <<"Seslendirme sirasinda bir hata olustu.">>

\* chunk.text of a fragment; string concatenation writes an undefined text
\* as "undefined".
ChunkTexts == { Some(<<"selam">>), None }

Concat(text, chunkText) ==
    text \o (IF chunkText = None THEN <<"undefined">> ELSE The(chunkText))

\* One handleSendMessage invocation suspended at an await: where, its
\* accumulatedText, and isTtsEnabled as its closure holds it.
Send(pc, accumulatedText, tts) ==
    [pc |-> pc, accumulatedText |-> accumulatedText, tts |-> tts]

\* What a send that has just returned did: how it left (returned, or caught
\* an error) with its record, and the utterances its synth.cancel() removed.
Sent(how, send, silenced) ==
    [how |-> how, send |-> send, silenced |-> silenced]

NoSend == Sent("none", Send("open", << >>, FALSE), 0)

\* disabled={isChatLoading} on the input and the button; !isChatLoading on
\* the Enter key.
SendEnabled == ~isChatLoading

\* if (!userInput.trim() && imageFiles.length === 0) return;
RejectsMessage(text, files) == IsBlank(text) /\ Len(files) = 0

\* err instanceof Error ? err.message : '...'
SendErrorMessage(err) == IF err.isError THEN err.message ELSE SendError

\* The finally block of handleSendMessage.
SendFinally ==
    /\ userInput' = << >>
    /\ isChatLoading' = FALSE
    /\ streamingResponse' = << >>

\* if (!isTtsEnabled || !text) return;
Speaks(tts, text) == tts /\ text # << >>

\* A speak that queues its utterance behind what is speaking; the code calls
\* synth.cancel() first.
SpeakQueues(tts, text) ==
    utterances' = IF Speaks(tts, text) THEN utterances + 1 ELSE utterances

\* speak(text), with isTtsEnabled as the caller holds it: cancel what is
\* speaking or queued, then queue the new utterance.
Speak(tts, text) ==
    utterances' = IF Speaks(tts, text) THEN 1 ELSE utterances

\* handleSendMessage up to its first await.
HandleSendMessage ==
    IF RejectsMessage(userInput, imageFiles)
    THEN /\ lastOp' = Op("handleSendMessage", { }, userInput)
         /\ lastSend' = NoSend
         /\ UNCHANGED << error, userInput, messages, streamingResponse,
                         isChatLoading, sends, chatSends >>
    ELSE /\ chatSends < MaxSends
         /\ chatSends' = chatSends + 1
         /\ error' = None
         /\ messages' = Append(messages, Message("user", userInput))
         /\ IF chat
            THEN /\ isChatLoading' = TRUE
                 /\ streamingResponse' = << >>
                 /\ sends' = Append(sends, Send("open", << >>, isTtsEnabled))
                 /\ lastOp' =
                        Op("handleSendMessage", { "sendMessageStream" },
                           userInput)
                 /\ lastSend' = NoSend
                 /\ UNCHANGED userInput
            ELSE /\ SendFinally
                 /\ lastOp' = Op("handleSendMessage", { }, userInput)
                 /\ lastSend' =
                        Sent("returned", Send("open", << >>, isTtsEnabled), 0)
                 /\ UNCHANGED sends

\* The send button.
ClickSend ==
    /\ panel = "chat"
    /\ SendEnabled
    /\ HandleSendMessage
    /\ UNCHANGED << panel, otherVars, assistantVars, videoVars, speechVars, chat, isTtsEnabled,
                    utterances >>

\* Enter in the input.
PressEnterSend ==
    /\ panel = "chat"
    /\ SendEnabled
    /\ HandleSendMessage
    /\ UNCHANGED << panel, otherVars, assistantVars, videoVars, speechVars, chat, isTtsEnabled,
                    utterances >>

\* onChange of the input.
TypeUserInput ==
    /\ panel = "chat"
    /\ SendEnabled
    /\ \E t \in ChatInputs : userInput' = t
    /\ lastOp' = Op("setUserInput", { }, << >>)
    /\ lastSend' = NoSend
    /\ UNCHANGED << panel, otherVars, assistantVars, videoVars, speechVars, chat, error, messages,
                    streamingResponse, isChatLoading, isTtsEnabled,
                    utterances, sends, chatSends >>

\* sendMessageStream of send i resolves with the stream.
StreamOpens ==
    /\ panel = "chat"
    /\ \E i \in 1..Len(sends) :
         /\ sends[i].pc = "open"
         /\ sends' = [sends EXCEPT ![i] = [@ EXCEPT !.pc = "stream"]]
    /\ lastOp' = Op("streamOpens", { }, << >>)
    /\ lastSend' = NoSend
    /\ UNCHANGED << panel, otherVars, assistantVars, videoVars, speechVars, chat, error, userInput,
                    messages, streamingResponse, isChatLoading, isTtsEnabled,
                    utterances, chatSends >>

\* The stream of send i delivers a fragment.
StreamChunk ==
    /\ panel = "chat"
    /\ \E i \in 1..Len(sends), chunkText \in ChunkTexts :
         /\ sends[i].pc = "stream"
         /\ Len(sends[i].accumulatedText) < MaxChunks
         /\ sends' = [sends EXCEPT
                         ![i] = [@ EXCEPT !.accumulatedText =
                                              Concat(@, chunkText)]]
         /\ streamingResponse' = Concat(streamingResponse, chunkText)
    /\ lastOp' = Op("streamChunk", { }, << >>)
    /\ lastSend' = NoSend
    /\ UNCHANGED << panel, otherVars, assistantVars, videoVars, speechVars, chat, error, userInput,
                    messages, isChatLoading, isTtsEnabled, utterances,
                    chatSends >>

\* The stream of send i ends: the model message is committed and spoken.
StreamEnds ==
    /\ panel = "chat"
    /\ \E i \in 1..Len(sends) :
         /\ sends[i].pc = "stream"
         /\ messages' =
                Append(messages, Message("model", sends[i].accumulatedText))
         /\ Speak(sends[i].tts, sends[i].accumulatedText)
         /\ lastSend' =
                Sent("returned", sends[i],
                     IF Speaks(sends[i].tts, sends[i].accumulatedText)
                     THEN utterances ELSE 0)
         /\ sends' = RemoveAt(sends, i)
    /\ SendFinally
    /\ lastOp' = Op("streamEnds", { }, << >>)
    /\ UNCHANGED << panel, otherVars, assistantVars, videoVars, speechVars, chat, error,
                    isTtsEnabled, chatSends >>

\* A failing stream whose partial text is committed as a model message; the
\* code commits a message only after the stream has ended.
StreamThrowsCommits ==
    /\ panel = "chat"
    /\ \E i \in 1..Len(sends), err \in { NetworkThrown, EventThrown } :
         /\ error' = Some(SendErrorMessage(err))
         /\ messages' =
                Append(messages, Message("model", sends[i].accumulatedText))
         /\ lastSend' = Sent("caught", sends[i], 0)
         /\ sends' = RemoveAt(sends, i)
    /\ SendFinally
    /\ lastOp' = Op("streamThrows", { }, << >>)
    /\ UNCHANGED << panel, otherVars, assistantVars, videoVars, speechVars, chat,
                    isTtsEnabled, utterances, chatSends >>

\* sendMessageStream of send i rejects, or its stream throws.
StreamThrows ==
    /\ panel = "chat"
    /\ \E i \in 1..Len(sends), err \in { NetworkThrown, EventThrown } :
         /\ error' = Some(SendErrorMessage(err))
         /\ lastSend' = Sent("caught", sends[i], 0)
         /\ sends' = RemoveAt(sends, i)
    /\ SendFinally
    /\ lastOp' = Op("streamThrows", { }, << >>)
    /\ UNCHANGED << panel, otherVars, assistantVars, videoVars, speechVars, chat, messages,
                    isTtsEnabled, utterances, chatSends >>

\* The button that switches spoken replies on and off.
ToggleTts ==
    /\ panel = "chat"
    /\ isTtsEnabled' = ~isTtsEnabled
    /\ lastOp' = Op("setIsTtsEnabled", { }, << >>)
    /\ lastSend' = NoSend
    /\ UNCHANGED << panel, otherVars, assistantVars, videoVars, speechVars, chat, error, userInput,
                    messages, streamingResponse, isChatLoading, utterances,
                    sends, chatSends >>

\* An utterance ends.
UtteranceEnds ==
    /\ panel = "chat"
    /\ utterances > 0
    /\ utterances' = utterances - 1
    /\ lastOp' = Op("onend", { }, << >>)
    /\ lastSend' = NoSend
    /\ UNCHANGED << panel, otherVars, assistantVars, videoVars, speechVars, chat, error, userInput,
                    messages, streamingResponse, isChatLoading, isTtsEnabled,
                    sends, chatSends >>

\* utterance.onerror
UtteranceError ==
    /\ panel = "chat"
    /\ utterances > 0
    /\ utterances' = utterances - 1
    /\ error' = Some(SpeechError)
    /\ lastOp' = Op("utterance.onerror", { }, << >>)
    /\ lastSend' = NoSend
    /\ UNCHANGED << panel, otherVars, assistantVars, videoVars, speechVars, chat, userInput,
                    messages, streamingResponse, isChatLoading, isTtsEnabled,
                    sends, chatSends >>

\* ------------------------------------------------ studio: speech input

\* The transcript of the k-th result of a session, while it is interim and
\* once it is final.
InterimWords == << <<"bi">>, <<"ik">>, <<"u">>, <<"dor">> >>

FinalWords == << <<"bir">>, <<"iki">>, <<"uc">>, <<"dort">> >>

\* event.results[i]: isFinal and [0].transcript
SpeechResult(isFinal, transcript) ==
    [isFinal |-> isFinal, transcript |-> transcript]

ResultAt(k, isFinal) ==
    SpeechResult(isFinal,
                 IF isFinal THEN FinalWords[((k - 1) % Len(FinalWords)) + 1]
                 ELSE InterimWords[((k - 1) % Len(InterimWords)) + 1])

\* The transcripts of the results from index i on that are final (or that
\* are interim), concatenated in order: one of the two strings the loop of
\* onresult builds.
RECURSIVE Transcript(_, _, _)
Transcript(results, i, isFinal) ==
    IF i > Len(results) THEN << >>
    ELSE (IF results[i].isFinal = isFinal THEN results[i].transcript
          ELSE << >>) \o Transcript(results, i + 1, isFinal)

\* What onresult writes into the input for an event: the loop runs from
\* event.resultIndex.
OnResultText(results, resultIndex) ==
    Transcript(results, resultIndex, TRUE)
        \o Transcript(results, resultIndex, FALSE)

\* recognitionRef.current: whether the platform has a recognizer, whether its
\* session is active (started, onend not yet delivered), whether it is
\* stopping, the results of the session, and whether start() was ever
\* invoked on an active session (it throws InvalidStateError).
Recognition(present, active, stopping, results, faulted) ==
    [present |-> present, active |-> active, stopping |-> stopping,
     results |-> results, faulted |-> faulted]

\* The microphone button of the chat.
ToggleListening ==
    /\ panel = "speech"
    /\ IF ~recognition.present
       THEN UNCHANGED speechVars
       ELSE IF isListeningChat
       THEN /\ recognition' =
                   [recognition EXCEPT !.stopping = recognition.active]
            /\ isListeningChat' = FALSE
       ELSE IF recognition.active
       THEN /\ recognition' = [recognition EXCEPT !.faulted = TRUE]
            /\ UNCHANGED isListeningChat
       ELSE /\ recognition' =
                   Recognition(TRUE, TRUE, FALSE, << >>, recognition.faulted)
            /\ isListeningChat' = TRUE
    /\ lastOp' = Op("toggleListening", { }, << >>)
    /\ UNCHANGED << panel, otherVars, assistantVars, videoVars, chat, error, userInput,
                    messages, streamingResponse, isChatLoading, isTtsEnabled,
                    utterances, sends, chatSends, lastSend >>

\* recognitionInstance.onresult: the platform adds a result to the session,
\* interim or final, or makes its last, interim result final; resultIndex is
\* the index of the result that changed.
SpeechOnResult ==
    /\ panel = "speech"
    /\ recognition.active /\ ~recognition.stopping
    /\ LET results == recognition.results
           n == Len(results)
       IN  \E isFinal \in BOOLEAN :
             LET pending == n > 0 /\ ~results[n].isFinal
                 resultIndex == IF pending THEN n ELSE n + 1
                 next == IF pending
                         THEN [results EXCEPT ![n] = ResultAt(n, TRUE)]
                         ELSE Append(results, ResultAt(n + 1, isFinal))
             IN  /\ pending => isFinal
                 /\ resultIndex <= MaxResults
                 /\ recognition' = [recognition EXCEPT !.results = next]
                 /\ userInput' = OnResultText(next, resultIndex)
    /\ lastOp' = Op("recognition.onresult", { }, << >>)
    /\ UNCHANGED << panel, otherVars, assistantVars, videoVars, chat, error, messages,
                    streamingResponse, isChatLoading, isTtsEnabled,
                    utterances, sends, chatSends, lastSend, isListeningChat >>

\* recognitionInstance.onerror: the session ends after it.
SpeechOnError ==
    /\ panel = "speech"
    /\ recognition.active /\ ~recognition.stopping
    /\ recognition' = [recognition EXCEPT !.stopping = TRUE]
    /\ isListeningChat' = FALSE
    /\ lastOp' = Op("recognition.onerror", { }, << >>)
    /\ UNCHANGED << panel, otherVars, assistantVars, videoVars, chat, error, userInput,
                    messages, streamingResponse, isChatLoading, isTtsEnabled,
                    utterances, sends, chatSends, lastSend >>

\* recognitionInstance.onend: after stop(), after an error, or when the
\* platform ends the session by itself.
SpeechOnEnd ==
    /\ panel = "speech"
    /\ recognition.active
    /\ recognition' = [recognition EXCEPT !.active = FALSE, !.stopping = FALSE]
    /\ isListeningChat' = FALSE
    /\ lastOp' = Op("recognition.onend", { }, << >>)
    /\ UNCHANGED << panel, otherVars, assistantVars, videoVars, chat, error, userInput,
                    messages, streamingResponse, isChatLoading, isTtsEnabled,
                    utterances, sends, chatSends, lastSend >>

\* ------------------------------------------------ studio: social posts

\* The key `${platform}-${index}` of a post.
PostId(platform, index) == [platform |-> platform, index |-> index]

\* content: { platform, text }
Content(platform, text) == [platform |-> platform, text |-> text]

\* A ScheduledPost; an entry made by spreading undefined has no content.
Post(content, scheduledAt) == [content |-> content, scheduledAt |-> scheduledAt]

\* What JSON.parse(response.text) gives: the texts of the twitter posts, or
\* nothing when the text does not parse.
PostAnswers == { Some(<<"a", "b">>), Some(<<"c">>), None }

\* The values of the datetime input.
ScheduleTimes == { "pazartesi", "sali" }

GenerationError == <<"Gonderi olusturulurken bir hata olustu.">>

\* JSON.parse throws a SyntaxError, which is an Error.
ParseThrown == Thrown(TRUE, <<"Unexpected token">>)

\* err instanceof Error ? err.message : '...'
GenerationErrorMessage(err) ==
    IF err.isError THEN err.message ELSE GenerationError

\* initialSchedule: one entry per text, keyed by platform and index.
InitialSchedule(texts) ==
    [id \in { PostId("twitter", k - 1) : k \in 1..Len(texts) } |->
        Post(Some(Content("twitter", texts[id.index + 1])), None)]

\* An update that writes a fresh entry { scheduledAt: date }; the code spreads
\* prev[schedulingPost] into the entry.
SchedulePostBare(prev, id, date) ==
    [j \in DOMAIN prev \cup { id } |->
        IF j = id THEN Post(None, Some(date)) ELSE prev[j]]

\* { ...prev, [schedulingPost]: { ...prev[schedulingPost], scheduledAt: date } }
SchedulePost(prev, id, date) ==
    [j \in DOMAIN prev \cup { id } |->
        IF j = id
        THEN Post(IF id \in DOMAIN prev THEN prev[id].content ELSE None,
                  Some(date))
        ELSE prev[j]]

\* The catch and finally blocks of generateSocialMediaPosts.
GenerationCatch(err) ==
    /\ socialPostError' = Some(GenerationErrorMessage(err))
    /\ isGeneratingPosts' = FALSE
    /\ UNCHANGED << socialPosts, activityLog >>

\* The generate button: generateSocialMediaPosts up to its await.
GenerateSocialMediaPosts ==
    /\ panel = "posts"
    /\ ~postFault
    /\ ~isGeneratingPosts
    /\ IF ~ai
       THEN /\ lastOp' = Op("generateSocialMediaPosts", { }, << >>)
            /\ UNCHANGED << socialPosts, isGeneratingPosts, socialPostError,
                            generations, postRuns >>
       ELSE /\ postRuns < MaxGenerations
            /\ postRuns' = postRuns + 1
            /\ isGeneratingPosts' = TRUE
            /\ socialPostError' = None
            /\ socialPosts' = None
            /\ generations' = generations + 1
            /\ lastOp' =
                   Op("generateSocialMediaPosts", { "generateContent" }, << >>)
    /\ UNCHANGED << panel, fileRead, assistantVars, chatVars, videoVars, ai,
                    isSchedulerOpen, schedulingPost, postFault >>

\* generateContent of a generation returns.
GenerationReturns ==
    /\ panel = "posts"
    /\ ~postFault
    /\ generations > 0
    /\ generations' = generations - 1
    /\ \E answer \in PostAnswers :
         IF answer = None
         THEN GenerationCatch(ParseThrown)
         ELSE /\ socialPosts' = Some(InitialSchedule(The(answer)))
              /\ activityLog' = << "posts" >> \o activityLog
              /\ isGeneratingPosts' = FALSE
              /\ UNCHANGED socialPostError
    /\ lastOp' = Op("generationReturns", { }, << >>)
    /\ UNCHANGED << panel, fileRead, assistantVars, chatVars, videoButLog, ai,
                    isSchedulerOpen, schedulingPost, postRuns, postFault >>

\* generateContent of a generation throws.
GenerationThrows ==
    /\ panel = "posts"
    /\ ~postFault
    /\ generations > 0
    /\ generations' = generations - 1
    /\ GenerationCatch(NetworkThrown)
    /\ lastOp' = Op("generationThrows", { }, << >>)
    /\ UNCHANGED << panel, fileRead, assistantVars, chatVars, videoButLog, ai,
                    isSchedulerOpen, schedulingPost, postRuns, postFault >>

\* The schedule button of a post of the list.
OpenScheduler ==
    /\ panel = "posts"
    /\ ~postFault
    /\ socialPosts # None
    /\ \E id \in DOMAIN The(socialPosts) : schedulingPost' = Some(id)
    /\ isSchedulerOpen' = TRUE
    /\ lastOp' = Op("openScheduler", { }, << >>)
    /\ UNCHANGED << panel, fileRead, assistantVars, chatVars, videoVars, ai,
                    socialPosts, isGeneratingPosts, socialPostError,
                    generations, postRuns, postFault >>

\* The cancel button of the scheduler.
CancelScheduler ==
    /\ panel = "posts"
    /\ ~postFault
    /\ isSchedulerOpen
    /\ isSchedulerOpen' = FALSE
    /\ lastOp' = Op("setIsSchedulerOpen", { }, << >>)
    /\ UNCHANGED << panel, fileRead, assistantVars, chatVars, videoVars, ai,
                    socialPosts, isGeneratingPosts, socialPostError,
                    schedulingPost, generations, postRuns, postFault >>

\* The scheduler's form.  The update of socialPosts is queued before the
\* argument of logActivity is evaluated: when the post is not in the map that
\* evaluation throws a TypeError, the update is still applied, and the
\* scheduler is not closed.  The list then cannot be rendered.
HandleSchedulePost ==
    /\ panel = "posts"
    /\ ~postFault
    /\ isSchedulerOpen
    /\ \E date \in ScheduleTimes :
         IF schedulingPost # None /\ socialPosts # None
         THEN /\ socialPosts' =
                     Some(SchedulePost(The(socialPosts), The(schedulingPost),
                                       date))
              /\ IF The(schedulingPost) \in DOMAIN The(socialPosts)
                 THEN /\ Len(activityLog) < MaxLog
                      /\ activityLog' = << "schedule" >> \o activityLog
                      /\ isSchedulerOpen' = FALSE
                      /\ schedulingPost' = None
                      /\ UNCHANGED postFault
                 ELSE /\ postFault' = TRUE
                      /\ UNCHANGED << activityLog, isSchedulerOpen,
                                      schedulingPost >>
         ELSE /\ isSchedulerOpen' = FALSE
              /\ schedulingPost' = None
              /\ UNCHANGED << socialPosts, activityLog, postFault >>
    /\ lastOp' = Op("handleSchedulePost", { }, << >>)
    /\ UNCHANGED << panel, fileRead, assistantVars, chatVars, videoButLog, ai,
                    isGeneratingPosts, socialPostError, generations,
                    postRuns >>

\* ------------------------------------------------ fileToGenerativePart

\* A call of fileToGenerativePart: the state of its FileReader, the state of
\* base64EncodedDataPromise, which the call awaits, and whether the onloadend
\* handler threw.
FileRead(reader, promise, threw) ==
    [reader |-> reader, promise |-> promise, threw |-> threw]

\* fileToGenerativePart(file): a promise with only a resolve function, and
\* readAsDataURL.
FileToGenerativePart ==
    /\ panel = "files"
    /\ fileRead.reader # "reading"
    /\ fileRead' = FileRead("reading", "pending", FALSE)
    /\ lastOp' = Op("fileToGenerativePart", { }, << >>)
    /\ UNCHANGED << panel, assistantVars, chatVars, videoVars, postVars >>

\* reader.onloadend, which the platform delivers after a read that succeeded
\* and after a read that failed.  After a failure reader.result is null, so
\* (reader.result as string).split throws in the handler and resolve is
\* never called.
ReaderLoadEnd ==
    /\ panel = "files"
    /\ fileRead.reader = "reading"
    /\ \E readable \in BOOLEAN :
         fileRead' = IF readable
                     THEN FileRead("done", "fulfilled", FALSE)
                     ELSE FileRead("error", fileRead.promise, TRUE)
    /\ lastOp' = Op("reader.onloadend", { }, << >>)
    /\ UNCHANGED << panel, assistantVars, chatVars, videoVars, postVars >>

\* ------------------------------------------------------- specification

InitAssistant ==
    /\ prompt = << >>
    /\ isProcessing = FALSE
    /\ isListening = FALSE
    /\ conversation = << Greeting >>
    /\ recognizer = Recognizer(FALSE, FALSE, FALSE)
    /\ dispatches = << >>
    /\ accepted = << >>
    /\ lastDispatch = NoOutcome
    /\ now = 0

InitVideo ==
    /\ mounted = TRUE
    /\ hasSelectedApiKey = FALSE
    /\ isVideoLoading = FALSE
    /\ videoLoadingMessage = << >>
    /\ generatedVideoUrl = None
    /\ videoError = None
    /\ videosGeneratedCount = 0
    /\ activityLog = << >>
    /\ runs = << >>
    /\ videoRuns = 0
    /\ lastRun = NoRun

\* The effect on mount creates the chat session when process.env.API_KEY is
\* set, and reports the missing key otherwise.
InitChat ==
    /\ error = IF chat THEN None ELSE Some(MissingKeyError)
    /\ userInput = << >>
    /\ messages = << >>
    /\ streamingResponse = << >>
    /\ isChatLoading = FALSE
    /\ isTtsEnabled = TRUE
    /\ utterances = 0
    /\ sends = << >>
    /\ chatSends = 0
    /\ lastSend = NoSend
    /\ recognition \in
           { Recognition(present, FALSE, FALSE, << >>, FALSE) :
               present \in IF panel = "speech" THEN BOOLEAN ELSE { FALSE } }
    /\ isListeningChat = FALSE

InitPosts ==
    /\ socialPosts = None
    /\ isGeneratingPosts = FALSE
    /\ socialPostError = None
    /\ isSchedulerOpen = FALSE
    /\ schedulingPost = None
    /\ generations = 0
    /\ postRuns = 0
    /\ postFault = FALSE

Init ==
    /\ panel \in { "assistant", "video", "chat", "speech", "posts", "files" }
    /\ lastOp = Op("init", { }, << >>)
    /\ hasRecognition \in IF panel = "assistant" THEN BOOLEAN ELSE { FALSE }
    /\ aistudio \in IF panel = "video" THEN BOOLEAN ELSE { FALSE }
    /\ InitAssistant
    /\ chat \in IF panel = "chat" THEN BOOLEAN ELSE { FALSE }
    /\ InitVideo
    /\ InitChat
    /\ ai \in IF panel = "posts" THEN BOOLEAN ELSE { FALSE }
    /\ InitPosts
    /\ fileRead = FileRead("idle", "none", FALSE)

Next ==
    \/ ClickSubmit
    \/ PressEnter
    \/ TypePrompt
    \/ DecisionReturns
    \/ DecisionThrows
    \/ ToolReturns
    \/ ToolThrows
    \/ HandleVoiceInput
    \/ RecognitionResult
    \/ RecognitionError
    \/ RecognitionEnd
    \/ HandleGenerateVideo
    \/ KeyCheckReturns
    \/ KeyCheckThrows
    \/ RotateMessage
    \/ ReadImageReturns
    \/ ReadImageThrows
    \/ GenerateVideosReturns
    \/ SleepElapses
    \/ PollReturns
    \/ RemoteThrows
    \/ FetchReturns
    \/ BlobReturns
    \/ HandleSelectKey
    \/ CheckApiKeyEffect
    \/ Unmount
    \/ ClickSend
    \/ PressEnterSend
    \/ TypeUserInput
    \/ StreamOpens
    \/ StreamChunk
    \/ StreamEnds
    \/ StreamThrows
    \/ ToggleTts
    \/ UtteranceEnds
    \/ UtteranceError
    \/ ToggleListening
    \/ SpeechOnResult
    \/ SpeechOnError
    \/ SpeechOnEnd
    \/ GenerateSocialMediaPosts
    \/ GenerationReturns
    \/ GenerationThrows
    \/ OpenScheduler
    \/ CancelScheduler
    \/ HandleSchedulePost
    \/ FileToGenerativePart
    \/ ReaderLoadEnd

Spec == Init /\ [][Next]_vars

\* The video generation alone, with room for one more invocation of
\* handleGenerateVideo: two of them can be in flight.
InitVideoOnly == Init /\ panel = "video"

HandleGenerateVideoAgain == GenerateVideo(MaxRuns + 1)

NextVideo ==
    \/ HandleGenerateVideoAgain
    \/ KeyCheckReturns
    \/ KeyCheckThrows
    \/ RotateMessage
    \/ ReadImageReturns
    \/ ReadImageThrows
    \/ GenerateVideosReturns
    \/ SleepElapses
    \/ PollReturns
    \/ RemoteThrows
    \/ FetchReturns
    \/ BlobReturns
    \/ HandleSelectKey
    \/ CheckApiKeyEffect
    \/ Unmount

SpecVideo == InitVideoOnly /\ [][NextVideo]_vars

\* The assistant alone, under the assumption that every remote call
\* eventually returns or throws: a dispatch that is suspended at an await is
\* eventually continued.
InitAssistantOnly == Init /\ panel = "assistant"

NextAssistant ==
    \/ ClickSubmit
    \/ PressEnter
    \/ TypePrompt
    \/ DecisionReturns
    \/ DecisionThrows
    \/ ToolReturns
    \/ ToolThrows
    \/ HandleVoiceInput
    \/ RecognitionResult
    \/ RecognitionError
    \/ RecognitionEnd

RemoteReturns ==
    DecisionReturns \/ DecisionThrows \/ ToolReturns \/ ToolThrows

SpecAssistant ==
    InitAssistantOnly /\ [][NextAssistant]_vars /\ WF_vars(RemoteReturns)

\* The chat alone, under the assumption that every remote call eventually
\* returns or throws: a send that is in flight is eventually continued.  A
\* stream delivers at most MaxChunks fragments, so it ends or fails.
InitChatOnly == Init /\ panel = "chat"

NextChat ==
    \/ ClickSend
    \/ PressEnterSend
    \/ TypeUserInput
    \/ StreamOpens
    \/ StreamChunk
    \/ StreamEnds
    \/ StreamThrows
    \/ ToggleTts
    \/ UtteranceEnds
    \/ UtteranceError

StreamContinues == StreamOpens \/ StreamChunk \/ StreamEnds \/ StreamThrows

SpecChat ==
    InitChatOnly /\ [][NextChat]_vars /\ WF_vars(StreamContinues)

\* ----------------------------------------------------------- properties

HasText(turn) == turn.text # None /\ The(turn.text) # << >>

LastTurn == conversation[Len(conversation)]

IsPrefix(s, t) == Len(s) <= Len(t) /\ SubSeq(t, 1, Len(s)) = s

\* C1: every accepted prompt adds exactly two turns: its user turn, holding the
\* raw prompt, at submission, and one model turn when its dispatch finishes,
\* whatever the path; the user turn precedes its model turn.  So the
\* transcript is the greeting, then one pair per accepted prompt, the last
\* pair lacking its model turn exactly while its dispatch is in flight.
C1_TwoTurnsPerPrompt ==
    /\ Len(conversation) = 1 + 2 * Len(accepted) - Len(dispatches)
    /\ \A k \in 1..Len(accepted) :
         /\ ~IsBlank(accepted[k])
         /\ conversation[2 * k] =
                Turn("user", Some(accepted[k]), None, None)
         /\ 2 * k + 1 <= Len(conversation)
                => conversation[2 * k + 1].role = "model"

\* A prompt with leading whitespace was accepted and its dispatch finished in
\* the catch block, after the tool's own call threw.
C1_Witness ==
    /\ accepted = << <<" ", "ciz">> >>
    /\ dispatches = << >>
    /\ Len(conversation) = 3
    /\ lastDispatch.threw = "tool"

\* C2: when the decision call returns no function call, the step that takes
\* its response appends exactly one turn: a model turn whose text is the
\* response's text as it is, without tool and without report.
C2_NoCallGivesRawText ==
    [][ (lastDispatch'.response # None
            /\ ~HasCall(The(lastDispatch'.response)))
        => conversation' =
               Append(conversation,
                      Turn("model", The(lastDispatch'.response).text,
                           None, None)) ]_vars

\* A decision response with an empty list of function calls and a text has
\* just been taken.
C2_Witness ==
    /\ lastDispatch.response = Some(Response(Some(<< >>), Some(<<"selam">>)))
    /\ LastTurn.text = Some(<<"selam">>)

\* C3: a turn carries a report exactly when it carries a tool result, the
\* report's status is Success, and the report of the dispatch that has just
\* finished names the function call the model returned.
C3_ReportIffTool ==
    /\ \A k \in 1..Len(conversation) :
         LET t == conversation[k]
         IN  /\ t.report # None => t.tool # None
             /\ t.tool # None =>
                  /\ t.report # None
                  /\ The(t.report).status = "Success"
                  /\ t.role = "model"
    /\ (lastDispatch # NoOutcome /\ LastTurn.tool # None) =>
         /\ lastDispatch.response # None
         /\ HasCall(The(lastDispatch.response))
         /\ The(LastTurn.report).toolUsed =
                FirstCall(The(lastDispatch.response)).name
         /\ The(LastTurn.report).prompt = lastDispatch.prompt

\* The image tool has just succeeded: its turn carries the image and a report.
C3_Witness ==
    /\ lastDispatch.toolResponse =
           Some(ToolResponse(None, Some(<<"png">>), None))
    /\ LastTurn.tool # None
    /\ The(LastTurn.report).toolUsed = "generateImageWithCanvas"

\* The dispatch that has just finished failed in its tool: the tool's own call
\* threw, a structured answer did not parse, or the image answer had no image.
ToolFailed ==
    \/ lastDispatch.threw = "tool"
    \/ /\ lastDispatch.toolResponse # None
       /\ LET name == FirstCall(The(lastDispatch.response)).name
              r == The(lastDispatch.toolResponse)
          IN  \/ /\ name \in { "architectCodeAndSystem", "createAutopilotPlan" }
                 /\ ~JsonOk(r.text)
              \/ /\ name = "generateImageWithCanvas"
                 /\ r.inlineData = None

\* C4: after a failed tool execution the model turn has no report and no tool
\* result, and its text is not empty.
C4_FailureGivesText ==
    ToolFailed =>
        /\ LastTurn.role = "model"
        /\ LastTurn.report = None
        /\ LastTurn.tool = None
        /\ HasText(LastTurn)

\* The architect's answer has just failed to parse.
C4_Witness ==
    /\ lastDispatch.toolResponse =
           Some(ToolResponse(Some(<<"plan", "}">>), None, None))
    /\ FirstCall(The(lastDispatch.response)).name = "architectCodeAndSystem"
    /\ LastTurn.text = Some(ArchitectErrorText)

\* C5: every turn of the transcript has a text that is not empty or a tool
\* result, the turn for a decision response without function call and
\* without text included.
C5_TurnHasTextOrTool ==
    \A k \in 1..Len(conversation) :
        HasText(conversation[k]) \/ conversation[k].tool # None

\* C6: the transcript only grows at its end: what it holds before a step is a
\* prefix of what it holds after.
C6_AppendOnly == [][ IsPrefix(conversation, conversation') ]_vars

\* A second prompt was accepted after the first dispatch finished.
C6_Witness == Len(accepted) = 2 /\ Len(conversation) = MaxTurns

\* C7: at most one dispatch is in flight, isProcessing is true exactly while
\* one is, and no step taken while isProcessing is true accepts a prompt.
C7_OneDispatch ==
    [][ /\ Len(dispatches') <= 1
        /\ isProcessing' <=> Len(dispatches') = 1
        /\ isProcessing => accepted' = accepted ]_vars

\* Voice input filled the prompt while a dispatch was in flight.
C7_Witness ==
    /\ Len(dispatches) = 1
    /\ isProcessing
    /\ lastOp.op = "onresult"
    /\ ~IsBlank(prompt)

\* C8: handleSubmit, handleSendMessage without image and handleGenerateVideo,
\* given an empty or whitespace-only prompt, call no endpoint, start nothing
\* that would, and add nothing to the transcript, the messages or the log.
C8_BlankRejected ==
    [][ ( \/ lastOp'.op = "handleSubmit" /\ IsBlank(prompt)
          \/ /\ lastOp'.op = "handleSendMessage"
             /\ IsBlank(userInput)
             /\ Len(imageFiles) = 0
          \/ lastOp'.op = "handleGenerateVideo" /\ IsBlank(lastOp'.input) )
        => /\ lastOp'.called = { }
           /\ UNCHANGED << conversation, dispatches, isProcessing, accepted,
                           messages, sends, isChatLoading, chatSends,
                           activityLog, runs, isVideoLoading, videoRuns >> ]_vars

\* Enter was pressed on a whitespace-only prompt.
C8_Witness ==
    /\ lastOp = Op("handleSubmit", { }, <<" ">>)
    /\ conversation = << Greeting >>

\* What C9 says of one run, given the await it is at or ended at: past the
\* loop its handle is done; it has fetched once if it is past the loop with a
\* uri and not at all otherwise; a handle that reported done on a poll, after
\* falsePolls polls, was polled falsePolls + 1 times.
PolledUntilDone(run, at) ==
    /\ at \in { "fetch", "blob", "end", "noUri" } => run.operation.done
    /\ run.fetches =
           IF at \in { "fetch", "blob", "end" } THEN 1 ELSE 0
    /\ at \in { "fetch", "blob", "end" } => run.operation.hasUri
    /\ run.operation.done <=> run.sawDone # "never"
    /\ run.polls =
           run.falsePolls
               + (IF run.sawDone = "poll" \/ at = "poll" THEN 1 ELSE 0)

\* C9: a run whose handle reports done = false for N polls and then done =
\* true with a uri polls exactly N + 1 times and then fetches exactly once; no
\* run leaves the loop while its handle is not done.
C9_PollsUntilDone ==
    /\ \A i \in 1..Len(runs) : PolledUntilDone(runs[i], runs[i].pc)
    /\ lastRun.how # "none" => PolledUntilDone(lastRun.run, lastRun.at)

\* A run has ended with its video after MaxPolls polls that reported done =
\* false.
C9_Witness ==
    /\ lastRun.how = "returned"
    /\ lastRun.at = "end"
    /\ lastRun.run.falsePolls = MaxPolls
    /\ lastRun.run.polls = MaxPolls + 1
    /\ lastRun.run.fetches = 1

\* The key check of a handleGenerateVideo invocation finds no key in this
\* step: window.aistudio is missing, or hasSelectedApiKey() resolved false.
KeyCheckFails ==
    \/ /\ lastOp'.op = "handleGenerateVideo"
       /\ ~IsBlank(lastOp'.input)
       /\ ~aistudio
    \/ lastOp'.op = "keyCheckReturns" /\ ~hasSelectedApiKey'

\* C10: when the key check finds no key the invocation returns with the
\* select-key message: the loading state is as it was, no interval is started,
\* no endpoint is called, and the invocation does not reject.
C10_FailsClosed ==
    [][ KeyCheckFails
        => /\ videoError' = Some(SelectKeyError)
           /\ UNCHANGED << isVideoLoading, videoLoadingMessage,
                           generatedVideoUrl, videosGeneratedCount,
                           activityLog >>
           /\ lastOp'.called = { }
           /\ lastRun'.how = "returned"
           /\ lastRun'.at = "checkKey"
           /\ ~lastRun'.run.ticking
           /\ Len(runs') <= Len(runs)
           /\ \A j \in 1..Len(runs') :
                \E i \in 1..Len(runs) : runs'[j] = runs[i] ]_vars

\* hasSelectedApiKey() has just resolved false for an invocation.
C10_Witness ==
    /\ lastOp.op = "keyCheckReturns"
    /\ ~hasSelectedApiKey
    /\ videoError = Some(SelectKeyError)
    /\ lastRun.how = "returned"
    /\ runs = << >>

\* The value the catch block of handleGenerateVideo received in this step is
\* an error whose message holds the not-found text.
CaughtNotFound ==
    /\ The(lastRun'.err).isError
    /\ Includes(The(lastRun'.err).message, "Requested entity was not found.")

C12_DisplayIsFinalsThenInterim ==
    [][ lastOp'.op = "recognition.onresult"
        => userInput' =
               Transcript(recognition'.results, 1, TRUE)
                   \o Transcript(recognition'.results, 1, FALSE) ]_vars

\* C13: start() is never invoked on a recognizer whose session is still
\* active, in either component, and the isListening flag the caller checks is
\* true whenever a session is active.
C13_OneSession ==
    /\ ~recognizer.faulted
    /\ ~recognition.faulted
    /\ recognizer.active => isListening
    /\ recognition.active => isListeningChat

\* C14: when sendMessageStream or a chunk read throws, the step records the
\* error and appends nothing: the last message is the user message of the
\* attempt, whatever was streamed before.
C14_FailedStreamCommitsNothing ==
    [][ lastSend'.how = "caught"
        => /\ messages' = messages
           /\ messages[Len(messages)].role = "user"
           /\ error' # None ]_vars

\* A stream has just failed after a fragment was delivered.
C14_Witness ==
    /\ lastSend.how = "caught"
    /\ lastSend.send.pc = "stream"
    /\ lastSend.send.accumulatedText = <<"selam">>
    /\ messages = << Message("user", <<"merhaba">>) >>
    /\ error = Some(<<"Failed to fetch">>)

\* C15: when the stream fails after fragments were delivered, streamingResponse
\* still holds them after handleSendMessage has finished.
C15_PartialTextRetained ==
    [][ lastSend'.how = "caught"
        => streamingResponse' = lastSend'.send.accumulatedText ]_vars

\* C16: submitting a schedule time while schedulingPost names an id that is
\* not in socialPosts does not throw, adds no entry and changes no post.
C16_UnknownPostIgnored ==
    [][ ( /\ lastOp'.op = "handleSchedulePost"
          /\ schedulingPost # None
          /\ socialPosts # None
          /\ The(schedulingPost) \notin DOMAIN The(socialPosts) )
        => /\ ~postFault'
           /\ socialPosts' = socialPosts ]_vars

\* C17: a post, once in socialPosts, stays in it with its content, whatever
\* the step: scheduling, a regeneration, a regeneration that fails.
C17_PostsNeverDeleted ==
    [][ socialPosts # None
        => /\ socialPosts' # None
           /\ \A id \in DOMAIN The(socialPosts) :
                /\ id \in DOMAIN The(socialPosts')
                /\ The(socialPosts')[id].content
                       = The(socialPosts)[id].content ]_vars

\* C18: when the FileReader reports a read error, the promise that
\* fileToGenerativePart gives its caller rejects.
C18_ReadErrorRejects ==
    [][ (lastOp'.op = "reader.onloadend" /\ fileRead'.reader = "error")
        => fileRead'.promise = "rejected" ]_vars

\* C19: a remote or host call that fails inside an operation is caught by
\* the operation and shown: the dispatcher appends its error turn, the chat
\* and the post generation set their error, the video generation, its key
\* check included, sets videoError; no invocation ends by rejecting.
C19_FailuresCaught ==
    /\ lastDispatch.threw \in { "client", "decision", "tool" }
           => LastTurn = CatchTurn
    /\ lastSend.how = "caught" => error # None
    /\ lastOp.op = "generationThrows" => socialPostError # None
    /\ lastRun.how = "caught" => videoError # None
    /\ lastRun.how # "rejected"

\* C20: no two reports of the transcript have the same operationId, and the
\* operationId of a dispatch is what the clock showed when the dispatch
\* started.
C20_OperationIdAtDispatch ==
    /\ \A j, k \in 1..Len(conversation) :
         (j # k /\ conversation[j].report # None
                /\ conversation[k].report # None)
             => The(conversation[j].report).operationId
                    # The(conversation[k].report).operationId
    /\ (lastDispatch # NoOutcome /\ LastTurn.report # None)
           => The(LastTurn.report).operationId = lastDispatch.startedAt

\* The decision response of the dispatch that has just finished names, in its
\* first function call, a tool that is not declared.
UndeclaredCall ==
    /\ lastDispatch.response # None
    /\ HasCall(The(lastDispatch.response))
    /\ FirstCall(The(lastDispatch.response)).name \notin ToolNames

\* C21: when the decision call returns a function call whose name is not a
\* declared tool, the step that takes the response finishes the dispatch and
\* appends exactly one turn: a model turn with the fixed "no capability" text,
\* without tool result and without report.
C21_UndeclaredToolGivesFixedText ==
    [][ UndeclaredCall'
        => /\ conversation' =
                  Append(conversation,
                         Turn("model", Some(NoToolText), None, None))
           /\ Len(dispatches') = Len(dispatches) - 1
           /\ isProcessing' = FALSE ]_vars

\* The decision call has just returned a call of translateText, which is not
\* declared, and the dispatch has finished with the fixed text.
C21_Witness ==
    /\ UndeclaredCall
    /\ FirstCall(The(lastDispatch.response)).name = "translateText"
    /\ lastDispatch.threw = "none"
    /\ LastTurn = Turn("model", Some(NoToolText), None, None)
    /\ dispatches = << >>

\* C22: only the first function call of a decision response is honoured.  The
\* step that finishes a dispatch whose decision response held function calls
\* appends exactly one turn, and that turn (its tool result, its text and its
\* report) is the one the switch gives for the first call alone; the tool's
\* own remote call is issued exactly when the first call names a remote tool.
C22_FirstCallWins ==
    [][ /\ (lastDispatch'.response # None
              /\ HasCall(The(lastDispatch'.response))
              /\ lastDispatch'.threw = "none")
          => LET first == The(The(lastDispatch'.response).functionCalls)[1]
                 r == IF lastDispatch'.toolResponse = None
                      THEN NoResponse
                      ELSE The(lastDispatch'.toolResponse)
             IN  /\ conversation' =
                        Append(conversation,
                               AttachReport(SwitchTurn(first, r),
                                            lastDispatch'.prompt, first, now'))
                 /\ LastTurn'.report # None
                      => The(LastTurn'.report).toolUsed = first.name
                 /\ (lastDispatch'.toolResponse # None)
                      = (first.name \in RemoteTools)
        /\ (lastOp'.op = "decisionReturns"
              /\ lastOp'.called = { "generateContent" })
          => \E i \in 1..Len(dispatches') :
               /\ dispatches'[i].pc = "tool"
               /\ The(The(dispatches'[i].response).functionCalls)[1].name
                      \in RemoteTools ]_vars

\* A decision response held two calls, the image tool then the desktop
\* command; the image tool ran and its result and report were appended.
C22_Witness ==
    /\ lastDispatch.response # None
    /\ HasCall(The(lastDispatch.response))
    /\ Len(The(The(lastDispatch.response).functionCalls)) = 2
    /\ lastDispatch.toolResponse =
           Some(ToolResponse(None, Some(<<"png">>), None))
    /\ LastTurn.tool # None
    /\ The(LastTurn.tool).name = "CreativeCanvasResult"
    /\ The(LastTurn.report).toolUsed = "generateImageWithCanvas"

\* C23: every declared tool issues its own remote call and builds its result
\* from that call's response: a dispatch that has just finished with a tool
\* result has taken the response of a second remote call, and the result's
\* data is not a literal of the program.
C23_EveryToolCallsRemote ==
    (lastDispatch # NoOutcome /\ LastTurn.tool # None)
        => /\ lastDispatch.toolResponse # None
           /\ ~The(LastTurn.tool).data.literal

\* C24: the rotation interval of a run is cancelled on every exit path: a
\* rotation tick runs, and videoLoadingMessage is updated by it, only while
\* the component is mounted and a run that started the interval has not left
\* its finally block.
C24_IntervalCancelledOnExit ==
    [][ lastOp'.op = "interval"
        => /\ mounted'
           /\ \E i \in 1..Len(runs) : runs[i].ticking ]_vars

\* C25: a speak call with TTS enabled and a text that is not empty leaves
\* exactly its own utterance at the synthesizer, whatever was speaking or
\* queued before; so at most one utterance is ever speaking or queued.
C25_OneUtterance ==
    [][ /\ utterances' <= 1
        /\ (lastSend'.how = "returned"
              /\ lastSend'.send.tts
              /\ lastSend'.send.accumulatedText # << >>
              /\ lastSend'.send.pc = "stream")
             => utterances' = 1 ]_vars

\* A reply has just been spoken while the utterance of the reply before it
\* was still speaking: that utterance was cancelled and one is left.
C25_Witness ==
    /\ lastSend.how = "returned"
    /\ lastSend.silenced = 1
    /\ utterances = 1
    /\ Len(messages) = 4

\* C26: handleSchedulePost for a post that is in socialPosts changes only that
\* post's scheduledAt, to the date submitted: the set of post ids, the post's
\* content and every other post are as before.  Cancelling the scheduler
\* changes no post.
C26_SchedulingFrame ==
    [][ /\ (lastOp'.op = "handleSchedulePost"
              /\ schedulingPost # None
              /\ socialPosts # None
              /\ The(schedulingPost) \in DOMAIN The(socialPosts))
             => /\ socialPosts' # None
                /\ DOMAIN The(socialPosts') = DOMAIN The(socialPosts)
                /\ \A id \in DOMAIN The(socialPosts) :
                     /\ The(socialPosts')[id].content =
                            The(socialPosts)[id].content
                     /\ id # The(schedulingPost)
                          => The(socialPosts')[id] = The(socialPosts)[id]
                /\ The(socialPosts')[The(schedulingPost)].scheduledAt
                       \in { Some(date) : date \in ScheduleTimes }
        /\ lastOp'.op = "setIsSchedulerOpen"
             => socialPosts' = socialPosts ]_vars

\* Two posts were generated and both were scheduled, the second after the
\* first: each keeps its content and its own date.
C26_Witness ==
    /\ lastOp.op = "handleSchedulePost"
    /\ socialPosts # None
    /\ DOMAIN The(socialPosts) = { PostId("twitter", 0), PostId("twitter", 1) }
    /\ The(socialPosts)[PostId("twitter", 0)] =
           Post(Some(Content("twitter", "a")), Some("sali"))
    /\ The(socialPosts)[PostId("twitter", 1)] =
           Post(Some(Content("twitter", "b")), Some("pazartesi"))
    /\ ~postFault

\* C27: at most one video generation is in flight: while an invocation of
\* handleGenerateVideo has not finished, no later invocation is past its
\* credential check.
C27_OneGenerationInFlight ==
    \A i, j \in 1..Len(runs) : i < j => runs[j].pc = "checkKey"

\* The last message of the chat is the user's: no reply follows it.
Unanswered ==
    Len(messages) > 0 /\ messages[Len(messages)].role = "user"

\* C28: every user message handleSendMessage appends is eventually followed by
\* a model message or by an error shown to the user, also when there is no
\* chat session.
C28_MessageAnsweredOrError ==
    Unanswered ~> (~Unanswered \/ error # None)

\* A run that passed its credential check has just left its finally block and
\* no other run is in flight.
RunFinishedAlone ==
    /\ lastRun.how \in { "returned", "caught" }
    /\ lastRun.at # "checkKey"
    /\ runs = << >>

\* C29: when a run that passed its credential check has finished and no other
\* run is in flight, isVideoLoading is false, videoLoadingMessage is empty and
\* exactly one of generatedVideoUrl and videoError is set; and
\* videosGeneratedCount is the number of runs that ended with a URL, each of
\* which is logged once.
C29_SettledAfterRun ==
    /\ RunFinishedAlone
         => /\ ~isVideoLoading
            /\ videoLoadingMessage = << >>
            /\ (generatedVideoUrl # None) # (videoError # None)
    /\ videosGeneratedCount =
           Cardinality({ k \in 1..Len(activityLog) : activityLog[k] = "video" })

\* C30: every accepted dispatch terminates: when each remote call eventually
\* returns or throws, isProcessing, set by handleSubmit, eventually becomes
\* false again, whatever the path of the dispatch; and while it is false no
\* dispatch is in flight, so the form accepts a submission again.
C30_DispatchTerminates ==
    /\ isProcessing ~> ~isProcessing
    /\ [](~isProcessing => dispatches = << >>)

\* The one dispatch accepted so far has finished in the catch block, after
\* its tool's own call threw, and isProcessing is false again.
C30_Witness ==
    /\ lastDispatch.threw = "tool"
    /\ ~isProcessing
    /\ dispatches = << >>
    /\ Len(accepted) = 1

====
